---- MODULE Spec2Model ----
(***************************************************************************)
(* lazy_tensors::Shape (lazy_tensor_core/lazy_tensors/shape.cc): a value   *)
(* holding an element type and a vector of dimension sizes, its rendering, *)
(* its equality, its stream insertion and the batch constructor            *)
(* convertShapes.                                                          *)
(*                                                                         *)
(* Text is a sequence of one-character strings, so that rendering is a     *)
(* computation on characters and not an opaque value.                      *)
(***************************************************************************)
EXTENDS Integers, Sequences, FiniteSets

\* ------------------------------------------------------------------ bounds
MaxRank == 2      \* longest sizes vector drawn by InitPair / InitTriple
MaxBatch == 2     \* longest dtypes / shapes vector passed to convertShapes
MaxObjs == 2      \* most Shapes the client holds at one time
MaxWrites == 1    \* most stream insertions in one run

\* ----------------------------------------------------------- input domains
ScalarTypes == {"Float", "Long"}
Dims == {-1, 0, 1, 10}
DimsEq == {-1, 10}
SampleSizes == {<<>>, <<-1, 10>>}
Streams == {"out", "err"}

SeqsUpTo(S, n) == UNION {[1..m -> S] : m \in 0..n}

\* ------------------------------------------------------------- the Shape
\* Shape::Shape: scalar_type_(scalar_type), sizes_(sizes.begin(), sizes.end())
ShapeDropLast(scalar_type, sizes) ==
  [scalar_type |-> scalar_type,
   sizes |-> [k \in 1..(IF Len(sizes) = 0 THEN 0 ELSE Len(sizes) - 1) |-> sizes[k]]]

Shape(scalar_type, sizes) ==
  [scalar_type |-> scalar_type, sizes |-> [k \in 1..Len(sizes) |-> sizes[k]]]

\* toString(at::ScalarType): the display name of the element type
toString(scalar_type) ==
  CASE scalar_type = "Float" -> <<"F", "l", "o", "a", "t">>
    [] scalar_type = "Long" -> <<"L", "o", "n", "g">>
    [] OTHER -> <<"U", "N", "K", "N", "O", "W", "N", "_", "S", "C", "A", "L", "A", "R">>

DigitChar(d) ==
  CASE d = 0 -> "0" [] d = 1 -> "1" [] d = 2 -> "2" [] d = 3 -> "3" [] d = 4 -> "4"
    [] d = 5 -> "5" [] d = 6 -> "6" [] d = 7 -> "7" [] d = 8 -> "8" [] d = 9 -> "9"

RECURSIVE Digits(_)
Digits(n) == IF n < 10 THEN <<DigitChar(n)>> ELSE Digits(n \div 10) \o <<DigitChar(n % 10)>>

\* std::ostream << int64_t: decimal, a leading '-' for a negative value
IntToStr(n) == IF n < 0 THEN <<"-">> \o Digits(-n) ELSE Digits(n)

\* c10::Join(delimiter, v): cnt = v.size() - 1; for each element e:
\*   s << e << (cnt ? delimiter : ""), --cnt
RECURSIVE JoinFrom(_, _, _, _)
JoinFrom(delimiter, v, idx, cnt) ==
  IF idx > Len(v) THEN <<>>
  ELSE IntToStr(v[idx]) \o (IF cnt # 0 THEN delimiter ELSE <<>>)
         \o JoinFrom(delimiter, v, idx + 1, cnt - 1)

Join(delimiter, v) == JoinFrom(delimiter, v, 1, Len(v) - 1)

\* Shape::ToString: c10::str(toString(scalar_type_), "[", c10::Join(",", sizes_), "]")
ToStringNoSeparator(shape) ==
  toString(shape.scalar_type) \o <<"[">> \o Join(<<>>, shape.sizes) \o <<"]">>

ToStringTrailingComma(shape) ==
  toString(shape.scalar_type) \o <<"[">>
    \o JoinFrom(<<",">>, shape.sizes, 1, Len(shape.sizes)) \o <<"]">>

ToString(shape) ==
  toString(shape.scalar_type) \o <<"[">> \o Join(<<",">>, shape.sizes) \o <<"]">>

\* std::vector<int64_t>::operator==: same size, then element by element
RECURSIVE EqualFrom(_, _, _)
EqualFrom(a, b, idx) ==
  IF idx > Len(a) THEN TRUE
  ELSE IF a[idx] # b[idx] THEN FALSE
  ELSE EqualFrom(a, b, idx + 1)

VectorEq(a, b) == Len(a) = Len(b) /\ EqualFrom(a, b, 1)

\* Shape::operator==: scalar_type_ == other.scalar_type_ && sizes_ == other.sizes_
ShapeEqSizesOnly(shape, other) == VectorEq(shape.sizes, other.sizes)

ShapeEqEither(shape, other) ==
  shape.scalar_type = other.scalar_type \/ VectorEq(shape.sizes, other.sizes)

ShapeEq(shape, other) ==
  shape.scalar_type = other.scalar_type /\ VectorEq(shape.sizes, other.sizes)

\* operator<<(std::ostream& out, const Shape& shape): return out << shape.ToString();
\* the effect on the streams and the stream reference returned
StreamInsertPrepend(streams, out, shape) ==
  [streams |-> [streams EXCEPT ![out] = ToString(shape) \o @], ref |-> out]

StreamInsert(streams, out, shape) ==
  [streams |-> [streams EXCEPT ![out] = @ \o ToString(shape)], ref |-> out]

\* TORCH_INTERNAL_ASSERT(dtypes.size() == shapes.size())
SizesMatchAtMost(d, s) == Len(d) <= Len(s)

SizesMatchBelow(d, s) == Len(d) < Len(s)

SizesMatch(d, s) == Len(d) = Len(s)

\* shape.emplace_back(dtypes[i], shapes[i]), i counted from 0
EmplaceBackSwapped(vec, d, s, idx) ==
  Append(vec, Shape(d[Len(d) - idx], s[idx + 1]))

EmplaceBack(vec, d, s, idx) == Append(vec, Shape(d[idx + 1], s[idx + 1]))

\* ------------------------------------------------------------------ state
VARIABLES
  pc,        \* where control is: "idle" (in the client), "assert", "loop",
             \* "done" (convertShapes has returned), "fatal" (assertion failed)
  dtypes,    \* convertShapes: the dtypes argument
  shapes,    \* convertShapes: the shapes argument
  i,         \* convertShapes: the loop counter
  shape,     \* convertShapes: the local result vector
  objs,      \* the Shapes the client holds
  born,      \* history: the constructor arguments of each Shape in objs \o shape
  buf,       \* the client's own sizes sequence, passed to the constructor
  streams,   \* contents of each output stream
  nwrites,   \* stream insertions so far
  ret        \* the value the last operation returned

vars == <<pc, dtypes, shapes, i, shape, objs, born, buf, streams, nwrites, ret>>

\* op: the operation; j, k: the Shapes it was applied to (indexes into objs);
\* arg: the stream it was given; ref: the stream reference returned by <<;
\* eq: the result of ==; text: the result of ToString; vec: the result of
\* convertShapes.
NoRet == [op |-> "none", j |-> 0, k |-> 0, arg |-> "", ref |-> "", eq |-> FALSE,
          text |-> <<>>, vec |-> <<>>]

frame == <<dtypes, shapes, i, shape>>

\* The client has already written "> " to out and nothing to err.
Prompt == [s \in Streams |-> IF s = "out" THEN <<">", " ">> ELSE <<>>]

Init ==
  /\ pc = "idle"
  /\ dtypes = <<>>
  /\ shapes = <<>>
  /\ i = 0
  /\ shape = <<>>
  /\ objs = <<>>
  /\ born = <<>>
  /\ buf = <<>>
  /\ streams = Prompt
  /\ nwrites = 0
  /\ ret = NoRet

\* ---------------------------------------------------------- client, Shape
\* The client rewrites its own sizes sequence.
MutateCaller(s) ==
  /\ pc = "idle"
  /\ buf # s
  /\ buf' = s
  /\ UNCHANGED <<pc, frame, objs, born, streams, nwrites, ret>>

\* Shape(t, buf)
Construct(t) ==
  /\ pc = "idle"
  /\ Len(objs) < MaxObjs
  /\ objs' = Append(objs, Shape(t, buf))
  /\ born' = Append(born, [scalar_type |-> t, sizes |-> buf])
  /\ ret' = [NoRet EXCEPT !.op = "ctor", !.j = Len(objs) + 1]
  /\ UNCHANGED <<pc, frame, buf, streams, nwrites>>

\* objs[k].ToString()
CallToString(k) ==
  /\ pc = "idle"
  /\ k \in DOMAIN objs
  /\ ret' = [NoRet EXCEPT !.op = "ToString", !.j = k, !.text = ToString(objs[k])]
  /\ UNCHANGED <<pc, frame, objs, born, buf, streams, nwrites>>

\* objs[j] == objs[k]
CallEqAssigns(j, k) ==
  /\ pc = "idle"
  /\ j \in DOMAIN objs
  /\ k \in DOMAIN objs
  /\ objs' = [objs EXCEPT ![j] = objs[k]]
  /\ ret' = [NoRet EXCEPT !.op = "eq", !.j = j, !.k = k, !.eq = TRUE]
  /\ UNCHANGED <<pc, frame, born, buf, streams, nwrites>>

CallEq(j, k) ==
  /\ pc = "idle"
  /\ j \in DOMAIN objs
  /\ k \in DOMAIN objs
  /\ ret' = [NoRet EXCEPT !.op = "eq", !.j = j, !.k = k, !.eq = ShapeEq(objs[j], objs[k])]
  /\ UNCHANGED <<pc, frame, objs, born, buf, streams, nwrites>>

\* out << objs[k]
Write(out, k) ==
  /\ pc = "idle"
  /\ k \in DOMAIN objs
  /\ nwrites < MaxWrites
  /\ LET r == StreamInsert(streams, out, objs[k]) IN
       /\ streams' = r.streams
       /\ ret' = [NoRet EXCEPT !.op = "write", !.j = k, !.arg = out, !.ref = r.ref]
  /\ nwrites' = nwrites + 1
  /\ UNCHANGED <<pc, frame, objs, born, buf>>

\* The client's Shapes go out of scope.
Destroy ==
  /\ pc = "idle"
  /\ objs # <<>>
  /\ objs' = <<>>
  /\ born' = <<>>
  /\ ret' = NoRet
  /\ UNCHANGED <<pc, frame, buf, streams, nwrites>>

\* ---------------------------------------------------------- convertShapes
\* The client, holding no Shapes, calls convertShapes(d, s).
Call(d, s) ==
  /\ pc = "idle"
  /\ objs = <<>>
  /\ pc' = "assert"
  /\ dtypes' = d
  /\ shapes' = s
  /\ i' = 0
  /\ shape' = <<>>
  /\ ret' = NoRet
  /\ UNCHANGED <<objs, born, buf, streams, nwrites>>

\* line 24: the assertion; lines 26-27: the empty result vector and i = 0
AssertSizes ==
  /\ pc = "assert"
  /\ pc' = IF SizesMatch(dtypes, shapes) THEN "loop" ELSE "fatal"
  /\ UNCHANGED <<frame, objs, born, buf, streams, nwrites, ret>>

\* lines 27-29: one iteration
LoopStep ==
  /\ pc = "loop"
  /\ i < Len(dtypes)
  /\ shape' = EmplaceBack(shape, dtypes, shapes, i)
  /\ born' = Append(born, [scalar_type |-> dtypes[i + 1], sizes |-> shapes[i + 1]])
  /\ i' = i + 1
  /\ UNCHANGED <<pc, dtypes, shapes, objs, buf, streams, nwrites, ret>>

\* line 27 (loop exit) and line 31: return shape
Return ==
  /\ pc = "loop"
  /\ ~(i < Len(dtypes))
  /\ pc' = "done"
  /\ ret' = [NoRet EXCEPT !.op = "convertShapes", !.vec = shape]
  /\ UNCHANGED <<frame, objs, born, buf, streams, nwrites>>

\* The client takes the returned vector; the call's frame is gone.
Receive ==
  /\ pc = "done"
  /\ pc' = "idle"
  /\ objs' = ret.vec
  /\ dtypes' = <<>>
  /\ shapes' = <<>>
  /\ i' = 0
  /\ shape' = <<>>
  /\ UNCHANGED <<born, buf, streams, nwrites, ret>>

ConvertStep == AssertSizes \/ LoopStep \/ Return \/ Receive

Next ==
  \/ \E s \in SampleSizes : MutateCaller(s)
  \/ \E t \in ScalarTypes : Construct(t)
  \/ \E k \in 1..MaxObjs : CallToString(k)
  \/ \E j, k \in 1..MaxObjs : CallEq(j, k)
  \/ \E out \in Streams, k \in 1..MaxObjs : Write(out, k)
  \/ Destroy
  \/ \E d \in SeqsUpTo(ScalarTypes, MaxBatch), s \in SeqsUpTo(SampleSizes, MaxBatch) : Call(d, s)
  \/ AssertSizes
  \/ LoopStep
  \/ Return
  \/ Receive

Spec == Init /\ [][Next]_vars

\* The scheduling: a call that has started runs to its end.
FairSpec == Spec /\ WF_vars(ConvertStep)

\* ------------------------------------------------- the pure operations alone
\* Two Shapes built from every pair of constructor arguments up to MaxRank.
InitPair ==
  /\ pc = "idle"
  /\ dtypes = <<>>
  /\ shapes = <<>>
  /\ i = 0
  /\ shape = <<>>
  /\ \E t1, t2 \in ScalarTypes : \E s1, s2 \in SeqsUpTo(Dims, MaxRank) :
       /\ objs = <<Shape(t1, s1), Shape(t2, s2)>>
       /\ born = <<[scalar_type |-> t1, sizes |-> s1], [scalar_type |-> t2, sizes |-> s2]>>
  /\ buf = <<>>
  /\ streams = Prompt
  /\ nwrites = 0
  /\ ret = NoRet

\* Three Shapes, for the laws of equality.
InitTriple ==
  /\ pc = "idle"
  /\ dtypes = <<>>
  /\ shapes = <<>>
  /\ i = 0
  /\ shape = <<>>
  /\ \E t1, t2, t3 \in ScalarTypes : \E s1, s2, s3 \in SeqsUpTo(DimsEq, MaxRank) :
       /\ objs = <<Shape(t1, s1), Shape(t2, s2), Shape(t3, s3)>>
       /\ born = <<[scalar_type |-> t1, sizes |-> s1], [scalar_type |-> t2, sizes |-> s2],
                   [scalar_type |-> t3, sizes |-> s3]>>
  /\ buf = <<>>
  /\ streams = Prompt
  /\ nwrites = 0
  /\ ret = NoRet

NextPure ==
  \/ \E k \in 1..3 : CallToString(k)
  \/ \E j, k \in 1..3 : CallEq(j, k)

SpecPair == InitPair /\ [][NextPure]_vars

SpecTriple == InitTriple /\ [][NextPure]_vars

\* ------------------------------------------------------------- properties
\* The Shapes that exist: those the client holds and those in the result
\* vector under construction.
existing == objs \o shape

\* Reading a rendering back: the fields between commas, and the signed
\* decimal numeral of each.
RECURSIVE SplitFrom(_, _, _)
SplitFrom(txt, idx, cur) ==
  IF idx > Len(txt) THEN <<cur>>
  ELSE IF txt[idx] = "," THEN <<cur>> \o SplitFrom(txt, idx + 1, <<>>)
  ELSE SplitFrom(txt, idx + 1, Append(cur, txt[idx]))

Fields(txt) == IF txt = <<>> THEN <<>> ELSE SplitFrom(txt, 1, <<>>)

DigitVal(c) ==
  CASE c = "0" -> 0 [] c = "1" -> 1 [] c = "2" -> 2 [] c = "3" -> 3 [] c = "4" -> 4
    [] c = "5" -> 5 [] c = "6" -> 6 [] c = "7" -> 7 [] c = "8" -> 8 [] c = "9" -> 9
    [] OTHER -> -1

Magnitude(f) == IF f # <<>> /\ f[1] = "-" THEN Tail(f) ELSE f

IsNumeral(f) ==
  LET m == Magnitude(f) IN
    /\ m # <<>>
    /\ \A n \in DOMAIN m : DigitVal(m[n]) >= 0
    /\ (Len(m) > 1 => m[1] # "0")

RECURSIVE NatVal(_)
NatVal(m) ==
  IF m = <<>> THEN 0 ELSE NatVal(SubSeq(m, 1, Len(m) - 1)) * 10 + DigitVal(m[Len(m)])

NumeralVal(f) == IF f[1] = "-" THEN 0 - NatVal(Tail(f)) ELSE NatVal(f)

Commas(txt) == Cardinality({n \in DOMAIN txt : txt[n] = ","})

\* txt is name, '[', the sizes in order separated by single commas, ']'
IsRendering(txt, name, sizes) ==
  /\ Len(txt) >= Len(name) + 2
  /\ SubSeq(txt, 1, Len(name)) = name
  /\ txt[Len(name) + 1] = "["
  /\ txt[Len(txt)] = "]"
  /\ LET inner == SubSeq(txt, Len(name) + 2, Len(txt) - 1)
         fs == Fields(inner)
     IN /\ \A n \in DOMAIN inner : inner[n] # " "
        /\ Commas(inner) = (IF Len(sizes) = 0 THEN 0 ELSE Len(sizes) - 1)
        /\ (Len(sizes) = 0 => inner = <<>>)
        /\ Len(fs) = Len(sizes)
        /\ \A n \in DOMAIN fs : IsNumeral(fs[n]) /\ NumeralVal(fs[n]) = sizes[n]

\* C1: when convertShapes returns, the result has one Shape per input index,
\* and the Shape at each index has the element type and the sizes found at
\* that index of dtypes and shapes (so order is kept and nothing is skipped,
\* duplicated or reordered); with empty inputs the result is empty.
C1_PairedByIndex ==
  pc = "done" =>
    /\ ret.op = "convertShapes"
    /\ Len(ret.vec) = Len(dtypes)
    /\ Len(ret.vec) = Len(shapes)
    /\ \A n \in DOMAIN ret.vec :
         ret.vec[n] = [scalar_type |-> dtypes[n], sizes |-> shapes[n]]

C1_Witness ==
  /\ pc = "done"
  /\ Len(ret.vec) = 2
  /\ dtypes[1] # dtypes[2]
  /\ shapes[1] # shapes[2]

\* C2: a call whose dtypes and shapes differ in length goes from the assertion
\* to the fatal path; it constructs no Shape and returns nothing, neither a
\* sequence nor an error value.
C2_MismatchIsFatal ==
  /\ [](Len(dtypes) # Len(shapes) =>
          /\ pc \in {"assert", "fatal"}
          /\ shape = <<>>
          /\ born = <<>>
          /\ ret = NoRet)
  /\ [][(pc = "assert" /\ Len(dtypes) # Len(shapes)) => pc' = "fatal"]_vars

C2_Witness ==
  /\ pc = "fatal"
  /\ Len(dtypes) < Len(shapes)
  /\ shape = <<>>

\* C3: a == b returns true exactly when the two Shapes have the same element
\* type and sizes of the same length with the same value at every index.
C3_EqualityIff ==
  ret.op = "eq" =>
    LET a == objs[ret.j]
        b == objs[ret.k]
    IN ret.eq <=>
         /\ a.scalar_type = b.scalar_type
         /\ Len(a.sizes) = Len(b.sizes)
         /\ \A n \in 1..Len(a.sizes) : a.sizes[n] = b.sizes[n]

\* two Shapes that differ only in the order of their sizes compare unequal
C3_Witness ==
  /\ ret.op = "eq"
  /\ ret.eq = FALSE
  /\ objs[ret.j].scalar_type = objs[ret.k].scalar_type
  /\ Len(objs[ret.j].sizes) = 2
  /\ objs[ret.k].sizes = <<objs[ret.j].sizes[2], objs[ret.j].sizes[1]>>

\* C4: ToString returns the display name of the element type, '[', the sizes
\* in dimension order as decimal numerals separated by single commas with no
\* space and no trailing comma, ']'; "name[]" for empty sizes.
C4_RenderingFormat ==
  ret.op = "ToString" =>
    IsRendering(ret.text, toString(objs[ret.j].scalar_type), objs[ret.j].sizes)

C4_Witness ==
  /\ ret.op = "ToString"
  /\ objs[ret.j].sizes = <<-1, 10>>
  /\ ret.text = <<"L", "o", "n", "g", "[", "-", "1", ",", "1", "0", "]">>

\* C5: every Shape has the element type and the sizes (same length, same
\* order) that its constructor was given, whatever the client does to its own
\* sequence afterwards.
C5_ConstructedAsGiven ==
  /\ Len(existing) = Len(born)
  /\ \A n \in DOMAIN existing :
       /\ existing[n].scalar_type = born[n].scalar_type
       /\ existing[n].sizes = born[n].sizes

\* a Shape constructed from the client's sequence, which has changed since
C5_Witness ==
  /\ ret.op = "ctor"
  /\ objs[ret.j].sizes = <<-1, 10>>
  /\ buf # objs[ret.j].sizes

\* C6: == on Shapes is reflexive, symmetric and transitive.
C6_EqualityIsEquivalence ==
  \A a, b, c \in DOMAIN objs :
    /\ ShapeEq(objs[a], objs[a])
    /\ (ShapeEq(objs[a], objs[b]) => ShapeEq(objs[b], objs[a]))
    /\ (ShapeEq(objs[a], objs[b]) /\ ShapeEq(objs[b], objs[c])
          => ShapeEq(objs[a], objs[c]))

\* three Shapes, the first two equal and the third different, just compared
C6_Witness ==
  /\ Len(objs) = 3
  /\ ret.op = "eq"
  /\ ret.j = 1
  /\ ret.k = 2
  /\ ret.eq = TRUE
  /\ objs[1].sizes = <<10, -1>>
  /\ ~ShapeEq(objs[2], objs[3])
  /\ objs[2].sizes = objs[3].sizes

\* C7: no step changes a Shape that exists before and after it, and no step
\* of a convertShapes call changes the call's two input sequences.
C7_NeverMutated ==
  [][/\ \A n \in DOMAIN existing : n \in DOMAIN existing' => existing'[n] = existing[n]
     /\ pc \in {"assert", "loop"} => (dtypes' = dtypes /\ shapes' = shapes)]_vars

\* two different Shapes have been compared after a stream write and a change
\* of the client's sequence
C7_Witness ==
  /\ ret.op = "eq"
  /\ ret.j # ret.k
  /\ objs[ret.j] # objs[ret.k]
  /\ nwrites > 0
  /\ born[1].sizes # buf

\* C8: a stream insertion appends the Shape's ToString() to the previous
\* contents of the stream it was given, returns that stream, and leaves the
\* other stream and every Shape as they were.
C8_WriteAppends ==
  [][nwrites' # nwrites =>
       /\ ret'.op = "write"
       /\ ret'.ref = ret'.arg
       /\ streams'[ret'.arg] = streams[ret'.arg] \o ToString(objs[ret'.j])
       /\ \A s \in Streams \ {ret'.arg} : streams'[s] = streams[s]
       /\ objs' = objs]_vars

\* a Shape has been written after the text already in out
C8_Witness ==
  /\ ret.op = "write"
  /\ ret.ref = "out"
  /\ streams["out"] = <<">", " ", "F", "l", "o", "a", "t", "[", "-", "1", ",", "1", "0", "]">>

\* C9: two Shapes of the same element type whose sizes differ as sequences
\* render differently: ToString calls made one after the other on two such
\* Shapes return different text.
C9_RenderingInjective ==
  [][(/\ ret.op = "ToString"
      /\ ret'.op = "ToString"
      /\ objs[ret.j].scalar_type = objs[ret'.j].scalar_type
      /\ objs[ret.j].sizes # objs[ret'.j].sizes) => ret'.text # ret.text]_vars

\* the rendering of sizes [1,0] is held while a Shape of sizes [10] exists
C9_Witness ==
  /\ ret.op = "ToString"
  /\ objs[1].scalar_type = objs[2].scalar_type
  /\ objs[ret.j].sizes = <<1, 0>>
  /\ objs[3 - ret.j].sizes = <<10>>

\* C10: control reaches the fatal path only from the assertion of a call whose
\* inputs differ in length; a call with inputs of equal length ends by
\* returning one Shape per index.
C10_OnlyError ==
  /\ [][pc' = "fatal" => (pc = "fatal" \/ (pc = "assert" /\ Len(dtypes) # Len(shapes)))]_vars
  /\ [](pc = "done" => (i = Len(dtypes) /\ Len(ret.vec) = Len(dtypes)))
  /\ ((pc = "assert" /\ Len(dtypes) = Len(shapes)) ~> pc = "done")

\* a call with two inputs of negative and empty sizes has returned
C10_Witness ==
  /\ pc = "done"
  /\ i = 2
  /\ shapes = << <<-1, 10>>, <<>> >>

====
